---- MODULE Spec2Model ----
(***************************************************************************)
(* django-entity-event: the Medium query methods (events, entity_events,   *)
(* events_targets), the seen bookkeeping (EventSeen, mark_seen) and event  *)
(* creation (create_event) of entity_event/models.py, as a state machine   *)
(* over the database tables and the per-object unsubscription cache.       *)
(*                                                                         *)
(* Tables without a uniqueness constraint are bags of rows; a table whose  *)
(* rows carry a primary key that the model reads (Event) is a set of       *)
(* records. Querysets are bags of event ids: the count is the number of    *)
(* rows the SQL query yields for that event (joins repeat rows).           *)
(***************************************************************************)
EXTENDS Bags, FiniteSets, Integers, Sequences, TLC

\* ------------------------------------------------------------------ bounds
MaxEvents == 2
MaxTime == 1
MaxUnsubscriptions == 1

\* ------------------------------------------------------- reference data
None == "None"

Media == {"m1", "m2"}
Sources == {"s1", "s2"}

\* The Entity table of the entity app (read-only here) and each row's kind.
Entities == {"parent", "child", "other"}
EntityKinds == {"group", "user"}
entity_kind == [e \in Entities |->
                  IF e = "parent" THEN "group" ELSE "user"]

\* An id that is the primary key of no Entity row.
DanglingEntity == "ghost"

VARIABLES
    Event,              \* set of rows [id, source, time, time_expires, uuid]
    EventActor,         \* bag of rows [event, entity]
    EventSeen,          \* bag of rows [event, medium]
    Subscription,       \* bag of rows [medium, source, entity,
                        \*              sub_entity_kind, only_following]
    Unsubscription,     \* bag of rows [entity, medium, source]
    EntityRelationship, \* set of rows [sub_entity, super_entity]
    unsubscriptions,    \* per Medium object: {} when the cached property is
                        \* not computed yet, else {dict source -> entity ids}
    now,                \* the clock read by utcnow() and auto_now_add
    ret,                \* the last call: its arguments, the tables before
                        \* it, how it ended and what it returned
    delivered,          \* history: per medium, the events some call with
                        \* seen=False, mark_seen=True has returned
    callers             \* per concurrent caller (a request in a process
                        \* of its own): where its events_targets call is,
                        \* what it read and what it wrote in its transaction

vars == <<Event, EventActor, EventSeen, Subscription, Unsubscription,
          EntityRelationship, unsubscriptions, now, ret, delivered, callers>>

\* The concurrent callers, and the record of one that is not in a call.
Callers == {"a", "b"}

NotCalling ==
    [pc |-> "idle", medium |-> "None", snapshot |-> {}, written |-> EmptyBag,
     result |-> {}, delivered_before |-> {}]

\* ------------------------------------------------------------ bag helpers
BagFilter(B, P(_)) == [x \in {y \in DOMAIN B : P(y)} |-> B[x]]

BagOfCounts(S, count(_)) == [x \in {y \in S : count(y) > 0} |-> count(x)]

RECURSIVE SeqToBag(_)
SeqToBag(s) ==
    IF s = <<>> THEN EmptyBag
    ELSE SetToBag({Head(s)}) (+) SeqToBag(Tail(s))

\* ------------------------------------------------------ transaction.atomic
\* Without @transaction.atomic: what the body wrote stays written.
atomicNoRollback(before, after, raised) == after

\* @transaction.atomic: the tables after the body when it returned, the
\* tables as they were before it when it raised.
atomic(before, after, raised) == IF raised THEN before ELSE after

\* --------------------------------------------------------------- tables
EventIds == {e.id : e \in Event}

EventById(id) == CHOOSE e \in Event : e.id = id

ActorsOf(id) == BagFilter(EventActor, LAMBDA r : r.event = id)

SeenRow(id, m) == [event |-> id, medium |-> m]

\* Event.uuid is unique=True: INSERT fails when a row has the uuid already.
uuid_unique(table, uuid) == \A e \in table : e.uuid # uuid

\* An EventSeen table without the unique index on (event, medium).
unique_together_not_enforced(table, batch) == TRUE

\* EventSeen.Meta.unique_together = ('event', 'medium'): the batch INSERT of
\* bulk_create fails as a whole when a row of the batch repeats a pair that
\* is in the table or earlier in the batch.
unique_together(table, batch) ==
    \A r \in DOMAIN batch : batch[r] = 1 /\ ~BagIn(r, table)

\* EventActor.entity is a ForeignKey(Entity): the rows must reference
\* Entity rows.
entity_fk(batch) == \A r \in DOMAIN batch : r.entity \in Entities

\* ------------------------------------------------------------ entity graph
\* followed_by that also follows the super entities of the super entities.
followed_by_two_levels(entities) ==
    LET supers(X) ==
            {r.super_entity :
                r \in {x \in EntityRelationship : x.sub_entity \in X}}
        super_entities == supers(entities) \cup supers(supers(entities))
    IN  {e \in Entities : e \in entities \/ e \in super_entities}

\* Medium.followed_by: the entities themselves and their direct super
\* entities.
followed_by(entities) ==
    LET super_entities ==
            {r.super_entity :
                r \in {x \in EntityRelationship : x.sub_entity \in entities}}
    IN  {e \in Entities : e \in entities \/ e \in super_entities}

\* followers_of with the relationship filtered on sub_entity, as followed_by
\* filters it.
followers_of_super_entities(entities) ==
    LET sub_entities ==
            {r.super_entity :
                r \in {x \in EntityRelationship : x.sub_entity \in entities}}
    IN  {e \in Entities : e \in entities \/ e \in sub_entities}

\* Medium.followers_of: the entities themselves and their direct sub
\* entities.
followers_of(entities) ==
    LET sub_entities ==
            {r.sub_entity :
                r \in {x \in EntityRelationship : x.super_entity \in entities}}
    IN  {e \in Entities : e \in entities \/ e \in sub_entities}

\* Subscription.subscribed_entities
subscribed_entities(sub) ==
    IF sub.sub_entity_kind # None
    THEN LET sub_entities ==
                 {r.sub_entity :
                     r \in {x \in EntityRelationship :
                               /\ x.super_entity = sub.entity
                               /\ entity_kind[x.sub_entity] = sub.sub_entity_kind}}
         IN  {e \in Entities : e \in sub_entities}
    ELSE {e \in Entities : e = sub.entity}

\* subset_subscriptions that restricts nothing.
subset_subscriptions_unrestricted(subscriptions, entity) == subscriptions

\* subset_subscriptions that also takes the group subscriptions of the super
\* entities of the entity's super entities.
subset_subscriptions_two_levels(subscriptions, entity) ==
    IF entity = None THEN subscriptions
    ELSE LET supers(X) ==
                 {r.super_entity :
                     r \in {x \in EntityRelationship : x.sub_entity \in X}}
             super_entities == supers({entity}) \cup supers(supers({entity}))
         IN  BagFilter(subscriptions, LAMBDA s :
                 \/ s.entity = entity /\ s.sub_entity_kind = None
                 \/ /\ s.entity \in super_entities
                    /\ s.sub_entity_kind = entity_kind[entity])

\* Medium.subset_subscriptions
subset_subscriptions(subscriptions, entity) ==
    IF entity = None THEN subscriptions
    ELSE LET super_entities ==
                 {r.super_entity :
                     r \in {x \in EntityRelationship : x.sub_entity = entity}}
         IN  BagFilter(subscriptions, LAMBDA s :
                 \/ s.entity = entity /\ s.sub_entity_kind = None
                 \/ /\ s.entity \in super_entities
                    /\ s.sub_entity_kind = entity_kind[entity])

\* ----------------------------------------------------------- unsubscriptions
\* Medium.unsubscriptions, the body of the cached property: the unsubscribed
\* entity ids of this medium, keyed on source (a defaultdict: a source with
\* no row maps to the empty list).
unsubscriptions_dict(self) ==
    [source \in Sources |->
        {u.entity : u \in {x \in DOMAIN Unsubscription :
                              x.medium = self /\ x.source = source}}]

\* @cached_property: the value computed by the first read of the attribute
\* on this Medium object is the value of every later read.
cached_property(cache, self) ==
    IF cache[self] = {} THEN unsubscriptions_dict(self)
    ELSE CHOOSE d \in cache[self] : TRUE

\* Medium.filter_source_targets_by_unsubscription, on the bag of targets.
filter_source_targets_by_unsubscription(cache, self, source_id, targets) ==
    LET unsubs == cached_property(cache, self)
    IN  BagFilter(targets, LAMBDA t : t \notin unsubs[source_id])

\* ------------------------------------------------------------ event filters
\* get_event_filters with `if seen:` in place of the explicit tests for True
\* and False: seen=False then filters nothing.
get_event_filters_seen_truthy(self, start_time, end_time, seen, include_expired, table, e) ==
    IF /\ \A t \in start_time : e.time >= t
       /\ \A t \in end_time : e.time <= t
       /\ include_expired \/ \A t \in e.time_expires : t >= now
    THEN IF seen = "True" THEN CopiesIn([event |-> e.id, medium |-> self], table)
         ELSE 1
    ELSE 0

\* get_event_filters with the seen conditions on eventseen alone, without
\* medium=self: a row of any medium makes the event seen.
get_event_filters_any_medium(self, start_time, end_time, seen, include_expired, table, e) ==
    LET rows == BagCardinality(BagFilter(table, LAMBDA r : r.event = e.id))
    IN  IF /\ \A t \in start_time : e.time >= t
           /\ \A t \in end_time : e.time <= t
           /\ include_expired \/ \A t \in e.time_expires : t >= now
        THEN CASE seen = "True"  -> rows
               [] seen = "False" -> IF rows = 0 THEN 1 ELSE 0
               [] OTHER -> 1
        ELSE 0

\* Medium.get_event_filters: the number of rows Event.objects.filter(*filters)
\* yields for event e when evaluated against the EventSeen table `table`.
\* Optional times are {} (None) or {t}. seen=True joins EventSeen, so e is
\* repeated once per EventSeen row of this medium; seen=False excludes e
\* when such a row exists.
get_event_filters(self, start_time, end_time, seen, include_expired, table, e) ==
    IF /\ \A t \in start_time : e.time >= t
       /\ \A t \in end_time : e.time <= t
       /\ include_expired \/ \A t \in e.time_expires : t >= now
    THEN CASE seen = "True"  -> CopiesIn(SeenRow(e.id, self), table)
           [] seen = "False" ->
                IF CopiesIn(SeenRow(e.id, self), table) = 0 THEN 1 ELSE 0
           [] OTHER -> 1
    ELSE 0

\* EventQuerySet.mark_seen: bulk_create of one EventSeen row per row of the
\* queryset. [raised, EventSeen]: whether the INSERT raised IntegrityError
\* and the table afterwards.
mark_seen(queryset, medium, table) ==
    LET batch == [r \in {SeenRow(id, medium) : id \in DOMAIN queryset} |->
                     queryset[r.event]]
    IN  IF unique_together(table, batch)
        THEN [raised |-> FALSE, EventSeen |-> table (+) batch]
        ELSE [raised |-> TRUE, EventSeen |-> table]

\* get_filtered_events marking on seen=False alone, whatever mark_seen is.
marks_whenever_unseen(seen, markSeen) == seen = "False"

\* The condition under which get_filtered_events marks.
marks(seen, markSeen) == seen = "False" /\ markSeen

\* get_filtered_events without the re-query by id: the caller iterates the
\* filtered queryset, which is evaluated after the marking.
not_materialized(snapshot, lazy) == lazy

\* Event.objects.filter(id__in=list(e.id for e in events)): the queryset is
\* evaluated before the marking and re-queried by id, so what the caller
\* iterates is the snapshot, not the filter as it evaluates afterwards.
materialized(snapshot, lazy) == snapshot

\* Medium.get_filtered_events: [events, raised, EventSeen].
get_filtered_events(self, start_time, end_time, seen, include_expired, markSeen) ==
    LET rows(table) ==
            BagOfCounts(EventIds, LAMBDA id :
                get_event_filters(self, start_time, end_time, seen,
                                  include_expired, table, EventById(id)))
    IN  IF marks(seen, markSeen)
        THEN LET byId == SetToBag(DOMAIN rows(EventSeen))
                 m == mark_seen(byId, self, EventSeen)
             IN  [events |-> materialized(byId, rows(m.EventSeen)),
                  raised |-> m.raised, EventSeen |-> m.EventSeen]
        ELSE [events |-> rows(EventSeen), raised |-> FALSE,
              EventSeen |-> EventSeen]

\* ----------------------------------------------------------------- queries
\* Subscription.objects.filter(medium=self)
subscriptions_of(self) == BagFilter(Subscription, LAMBDA s : s.medium = self)

\* subscription_rows with EventActor joined by an INNER JOIN: an event
\* without actors has no row as soon as one Q names eventactor.
subscription_rows_inner_join(subscriptions, following, e) ==
    LET subs == DOMAIN subscriptions
        Q(sub, actor) ==
            /\ sub.source = e.source
            /\ sub.only_following => actor \in following[sub]
    IN  IF \A sub \in subs : ~sub.only_following
        THEN IF \E sub \in subs : sub.source = e.source THEN 1 ELSE 0
        ELSE BagCardinality(BagFilter(ActorsOf(e.id), LAMBDA r :
                 \E sub \in subs : Q(sub, r.entity)))

\* The rows events.filter(reduce(or_, subscription_q_objects)) yields for
\* event e: following[sub] is the entity set of the sub's
\* eventactor__entity__in condition. One Q that names eventactor makes the
\* query LEFT OUTER JOIN EventActor, and the WHERE clause is then tested on
\* every (event, actor) row; an event without actors is one row with a NULL
\* actor.
subscription_rows(subscriptions, following, e) ==
    LET subs == DOMAIN subscriptions
        Q(sub, actor) ==
            /\ sub.source = e.source
            /\ sub.only_following => actor \in following[sub]
        actors == ActorsOf(e.id)
    IN  IF \A sub \in subs : ~sub.only_following
        THEN IF \E sub \in subs : sub.source = e.source THEN 1 ELSE 0
        ELSE IF actors = EmptyBag
        THEN IF \E sub \in subs : Q(sub, None) THEN 1 ELSE 0
        ELSE BagCardinality(BagFilter(actors, LAMBDA r :
                 \E sub \in subs : Q(sub, r.entity)))

\* reduce(or_, subscription_q_objects) without an initial value raises
\* TypeError on an empty list.
reduce_raises(subscriptions) == subscriptions = EmptyBag

\* Medium.events: [raised, events, EventSeen] before @transaction.atomic.
events(self, start_time, end_time, seen, include_expired, markSeen) ==
    LET fe == get_filtered_events(self, start_time, end_time, seen,
                                  include_expired, markSeen)
        subscriptions == subscriptions_of(self)
        following == [sub \in DOMAIN subscriptions |->
                         followed_by(subscribed_entities(sub))]
    IN  IF reduce_raises(subscriptions)
        THEN [raised |-> TRUE, events |-> EmptyBag, EventSeen |-> fe.EventSeen]
        ELSE [raised |-> FALSE,
              events |-> BagOfCounts(DOMAIN fe.events, LAMBDA id :
                             fe.events[id] *
                             subscription_rows(subscriptions, following,
                                               EventById(id))),
              EventSeen |-> fe.EventSeen]

\* Medium.entity_events: [raised, events, EventSeen, iterated]; iterated
\* tells whether the list comprehension ran at least once, and so read the
\* unsubscriptions property.
entity_events(cache, self, entity, start_time, end_time, seen, include_expired, markSeen) ==
    LET fe == get_filtered_events(self, start_time, end_time, seen,
                                  include_expired, markSeen)
        subscriptions == subset_subscriptions(subscriptions_of(self), entity)
        following == [sub \in DOMAIN subscriptions |-> followed_by({entity})]
        rows == BagOfCounts(DOMAIN fe.events, LAMBDA id :
                    fe.events[id] *
                    subscription_rows(subscriptions, following, EventById(id)))
        keeps(id) ==
            filter_source_targets_by_unsubscription(
                cache, self, EventById(id).source, SetToBag({entity})) # EmptyBag
    IN  IF reduce_raises(subscriptions)
        THEN [raised |-> TRUE, events |-> EmptyBag, EventSeen |-> fe.EventSeen,
              iterated |-> FALSE]
        ELSE [raised |-> FALSE, events |-> BagFilter(rows, keeps),
              EventSeen |-> fe.EventSeen, iterated |-> rows # EmptyBag]

\* The targets of one event in Medium.events_targets, as a bag of entities:
\* every subscription row of the event's source extends the list.
event_targets(cache, self, entity_kind_arg, e) ==
    LET subscriptions == subscriptions_of(self)
        potential_targets ==
            followers_of({r.entity : r \in DOMAIN ActorsOf(e.id)})
        subscription_targets(sub) ==
            IF sub.only_following
            THEN subscribed_entities(sub) \cap potential_targets
            ELSE subscribed_entities(sub)
        extended ==
            BagOfCounts(Entities, LAMBDA t :
                BagCardinality(BagFilter(subscriptions, LAMBDA sub :
                    sub.source = e.source /\ t \in subscription_targets(sub))))
        targets == filter_source_targets_by_unsubscription(
                       cache, self, e.source, extended)
    IN  IF entity_kind_arg # None
        THEN BagFilter(targets, LAMBDA t : entity_kind[t] = entity_kind_arg)
        ELSE targets

\* events_targets without `if targets:`: every filtered event is paired
\* with its targets, also when there are none.
events_targets_keeping_empty(cache, self, entity_kind_arg, start_time, end_time, seen, include_expired, markSeen) ==
    LET fe == get_filtered_events(self, start_time, end_time, seen,
                                  include_expired, markSeen)
        pairs == {[event |-> id,
                   targets |-> event_targets(cache, self, entity_kind_arg,
                                             EventById(id))] :
                     id \in DOMAIN fe.events}
    IN  [raised |-> FALSE,
         event_pairs |-> pairs,
         EventSeen |-> fe.EventSeen,
         iterated |-> fe.events # EmptyBag]

\* Medium.events_targets: [raised, event_pairs, EventSeen, iterated];
\* event_pairs is the set of (event, targets) pairs.
events_targets(cache, self, entity_kind_arg, start_time, end_time, seen, include_expired, markSeen) ==
    LET fe == get_filtered_events(self, start_time, end_time, seen,
                                  include_expired, markSeen)
        pairs == {[event |-> id,
                   targets |-> event_targets(cache, self, entity_kind_arg,
                                             EventById(id))] :
                     id \in DOMAIN fe.events}
    IN  [raised |-> FALSE,
         event_pairs |-> {p \in pairs : p.targets # EmptyBag},
         EventSeen |-> fe.EventSeen,
         iterated |-> fe.events # EmptyBag]

\* ----------------------------------------------------------------- actions
\* What every call record keeps of the tables as they were before the call.
Before ==
    [Event |-> Event, EventActor |-> EventActor, EventSeen |-> EventSeen,
     Unsubscription |-> Unsubscription, unsubscriptions |-> unsubscriptions,
     delivered |-> delivered, now |-> now]

\* An actor argument is an Entity object or a primary key.
EntityObj(id) == [isinstance_Entity |-> TRUE, id |-> id]
Pk(id) == [isinstance_Entity |-> FALSE, pk |-> id]

\* a.id if isinstance(a, Entity) else a
ActorId(a) == IF a.isinstance_Entity THEN a.id ELSE a.pk

\* create_event without the look-up of the uuid.
duplicate_check_skipped(ignore_duplicates, uuid) == FALSE

\* ignore_duplicates and self.filter(uuid=kwargs.get('uuid', '')).exists()
duplicate_exists(ignore_duplicates, uuid) ==
    ignore_duplicates /\ \E e \in Event : e.uuid = uuid

\* EventManager.create_event(actors, ignore_duplicates, source=, time_expires=,
\* uuid=), under @transaction.atomic.
create_event(actors, ignore_duplicates, source, time_expires, uuid) ==
    IF duplicate_exists(ignore_duplicates, uuid)
    THEN /\ ret' = [op |-> "create_event", actors |-> actors,
                    ignore_duplicates |-> ignore_duplicates, uuid |-> uuid,
                    outcome |-> "None", event |-> 0, before |-> Before]
         /\ UNCHANGED <<Event, EventActor>>
    ELSE LET id == Cardinality(Event) + 1
             event == [id |-> id, source |-> source, time |-> now,
                       time_expires |-> time_expires, uuid |-> uuid]
             created == uuid_unique(Event, uuid)
             batch == SeqToBag([i \in 1..Len(actors) |->
                          [event |-> id, entity |-> ActorId(actors[i])]])
             inserted == created /\ entity_fk(batch)
             raised == ~inserted
             before == [Event |-> Event, EventActor |-> EventActor]
             after == [Event |-> IF created THEN Event \cup {event} ELSE Event,
                       EventActor |-> IF inserted THEN EventActor (+) batch
                                      ELSE EventActor]
             db == atomic(before, after, raised)
         IN  /\ Event' = db.Event
             /\ EventActor' = db.EventActor
             /\ ret' = [op |-> "create_event", actors |-> actors,
                        ignore_duplicates |-> ignore_duplicates, uuid |-> uuid,
                        outcome |-> IF raised THEN "IntegrityError" ELSE "Event",
                        event |-> IF raised THEN 0 ELSE id, before |-> Before]

CreateEvent(actors, ignore_duplicates, source, time_expires, uuid) ==
    /\ Cardinality(Event) < MaxEvents
    /\ create_event(actors, ignore_duplicates, source, time_expires, uuid)
    /\ UNCHANGED <<EventSeen, Subscription, Unsubscription, EntityRelationship,
                   unsubscriptions, now, delivered,
                   callers>>

\* Time passes.
Tick ==
    /\ now < MaxTime
    /\ now' = now + 1
    /\ ret' = [op |-> "tick", before |-> Before]
    /\ UNCHANGED <<Event, EventActor, EventSeen, Subscription, Unsubscription,
                   EntityRelationship, unsubscriptions, delivered,
                   callers>>

\* EventQuerySet.mark_seen(medium) called by the application on the
\* queryset that holds the events `ids`.
MarkSeen(ids, medium) ==
    LET m == mark_seen(SetToBag(ids), medium, EventSeen)
    IN  /\ EventSeen' = m.EventSeen
        /\ ret' = [op |-> "mark_seen", medium |-> medium, queryset |-> ids,
                   outcome |-> IF m.raised THEN "IntegrityError" ELSE "ok",
                   before |-> Before]
        /\ UNCHANGED <<Event, EventActor, Subscription, Unsubscription,
                       EntityRelationship, unsubscriptions, now, delivered,
                   callers>>

\* The record of a query call.
QueryRet(op, self, arg, start_time, end_time, seen, include_expired, markSeen, r, returned, pairs) ==
    [op |-> op, medium |-> self, arg |-> arg, start_time |-> start_time,
     end_time |-> end_time, seen |-> seen, include_expired |-> include_expired,
     mark_seen |-> markSeen,
     outcome |-> IF r.raised THEN "TypeError" ELSE "ok",
     events |-> returned, event_pairs |-> pairs, before |-> Before]

\* The history of what calls with seen=False, mark_seen=True returned.
Delivered(self, seen, markSeen, raised, returned) ==
    IF seen = "False" /\ markSeen /\ ~raised
    THEN [delivered EXCEPT ![self] = @ \cup DOMAIN returned]
    ELSE delivered

\* The cache of the Medium object after a call that read the property.
Cached(self, iterated) ==
    IF iterated
    THEN [unsubscriptions EXCEPT ![self] = {cached_property(unsubscriptions, self)}]
    ELSE unsubscriptions

\* medium.events(...). The queryset it returns is evaluated by the caller
\* before anything else is written.
Events(self, start_time, end_time, seen, include_expired, markSeen) ==
    LET r == events(self, start_time, end_time, seen, include_expired, markSeen)
        db == atomic([EventSeen |-> EventSeen], [EventSeen |-> r.EventSeen],
                     r.raised)
    IN  /\ EventSeen' = db.EventSeen
        /\ delivered' = Delivered(self, seen, markSeen, r.raised, r.events)
        /\ ret' = QueryRet("events", self, None, start_time, end_time, seen,
                           include_expired, markSeen, r, r.events, {})
        /\ UNCHANGED <<Event, EventActor, Subscription, Unsubscription,
                       EntityRelationship, unsubscriptions, now,
                   callers>>

\* medium.entity_events(entity, ...)
EntityEvents(self, entity, start_time, end_time, seen, include_expired, markSeen) ==
    LET r == entity_events(unsubscriptions, self, entity, start_time, end_time,
                           seen, include_expired, markSeen)
        db == atomic([EventSeen |-> EventSeen], [EventSeen |-> r.EventSeen],
                     r.raised)
    IN  /\ EventSeen' = db.EventSeen
        /\ unsubscriptions' = Cached(self, r.iterated)
        /\ delivered' = Delivered(self, seen, markSeen, r.raised, r.events)
        /\ ret' = QueryRet("entity_events", self, entity, start_time, end_time,
                           seen, include_expired, markSeen, r, r.events, {})
        /\ UNCHANGED <<Event, EventActor, Subscription, Unsubscription,
                       EntityRelationship, now,
                   callers>>

\* medium.events_targets(entity_kind, ...)
EventsTargets(self, entity_kind_arg, start_time, end_time, seen, include_expired, markSeen) ==
    LET r == events_targets(unsubscriptions, self, entity_kind_arg, start_time,
                            end_time, seen, include_expired, markSeen)
        returned == SetToBag({p.event : p \in r.event_pairs})
        db == atomic([EventSeen |-> EventSeen], [EventSeen |-> r.EventSeen],
                     r.raised)
    IN  /\ EventSeen' = db.EventSeen
        /\ unsubscriptions' = Cached(self, r.iterated)
        /\ delivered' = Delivered(self, seen, markSeen, r.raised, returned)
        /\ ret' = QueryRet("events_targets", self, entity_kind_arg, start_time,
                           end_time, seen, include_expired, markSeen, r,
                           returned, r.event_pairs)
        /\ UNCHANGED <<Event, EventActor, Subscription, Unsubscription,
                       EntityRelationship, now,
                   callers>>

\* Unsubscription.objects.create(entity=, medium=, source=)
CreateUnsubscription(entity, medium, source) ==
    /\ BagCardinality(Unsubscription) < MaxUnsubscriptions
    /\ Unsubscription' = Unsubscription (+)
           SetToBag({[entity |-> entity, medium |-> medium, source |-> source]})
    /\ ret' = [op |-> "create_unsubscription", before |-> Before]
    /\ UNCHANGED <<Event, EventActor, EventSeen, Subscription,
                   EntityRelationship, unsubscriptions, now, delivered,
                   callers>>

\* Medium.objects.get(...): the caller continues with a new Medium object,
\* whose cached property is not computed.
GetMedium(medium) ==
    /\ unsubscriptions[medium] # {}
    /\ unsubscriptions' = [unsubscriptions EXCEPT ![medium] = {}]
    /\ ret' = [op |-> "get_medium", medium |-> medium, before |-> Before]
    /\ UNCHANGED <<Event, EventActor, EventSeen, Subscription, Unsubscription,
                   EntityRelationship, now, delivered,
                   callers>>

\* The follow calls whose result the caller still holds.
IsFollowCall == ret.op \in {"followed_by", "followers_of"}

\* What a follow call's record keeps of the follow call made right before
\* it, whose result the caller may compare with or pass on.
Previous ==
    IF IsFollowCall
    THEN {[op |-> ret.op, entities |-> ret.entities, result |-> ret.result]}
    ELSE {}

\* medium.followed_by(entities), on a set of entities (a single Entity is
\* the set that holds it).
FollowedBy(entities) ==
    /\ ret' = [op |-> "followed_by", entities |-> entities,
               result |-> followed_by(entities), previous |-> Previous,
               before |-> Before]
    /\ UNCHANGED <<Event, EventActor, EventSeen, Subscription, Unsubscription,
                   EntityRelationship, unsubscriptions, now, delivered,
                   callers>>

\* medium.followers_of(entities)
FollowersOf(entities) ==
    /\ ret' = [op |-> "followers_of", entities |-> entities,
               result |-> followers_of(entities), previous |-> Previous,
               before |-> Before]
    /\ UNCHANGED <<Event, EventActor, EventSeen, Subscription, Unsubscription,
                   EntityRelationship, unsubscriptions, now, delivered,
                   callers>>

\* medium.subset_subscriptions(Subscription.objects.filter(medium=medium),
\* entity), with an entity or None.
SubsetSubscriptions(self, entity) ==
    /\ ret' = [op |-> "subset_subscriptions", medium |-> self, arg |-> entity,
               subscriptions |-> subscriptions_of(self),
               result |-> subset_subscriptions(subscriptions_of(self), entity),
               before |-> Before]
    /\ UNCHANGED <<Event, EventActor, EventSeen, Subscription, Unsubscription,
                   EntityRelationship, unsubscriptions, now, delivered,
                   callers>>

\* The entity_events call whose result the caller still holds, also after
\* it fetched the medium again.
HeldEntityEvents ==
    IF ret.op = "entity_events" THEN {ret}
    ELSE IF ret.op = "get_medium_again" THEN {ret.held}
    ELSE {}

\* Medium.objects.get(...) while the caller holds the result of an
\* entity_events call on the medium: its next call is on a second Medium
\* object, whose cached property is not computed.
GetMediumAgain ==
    /\ ret.op = "entity_events"
    /\ unsubscriptions[ret.medium] # {}
    /\ unsubscriptions' = [unsubscriptions EXCEPT ![ret.medium] = {}]
    /\ ret' = [op |-> "get_medium_again", medium |-> ret.medium, held |-> ret,
               before |-> Before]
    /\ UNCHANGED <<Event, EventActor, EventSeen, Subscription, Unsubscription,
                   EntityRelationship, now, delivered,
                   callers>>

\* A call record that also keeps the call made before it, and whether the
\* medium was fetched again in between.
WithPrevious(record, call, refetched) ==
    [f \in DOMAIN record \cup {"previous", "refetched"} |->
        IF f = "previous" THEN call
        ELSE IF f = "refetched" THEN refetched
        ELSE record[f]]

\* medium.events_targets(...) without entity_kind, called right after
\* entity_events on the same medium with the same filter arguments, while
\* the caller holds that call's result.
EventsTargetsAfter(call) ==
    LET r == events_targets(unsubscriptions, call.medium, None,
                            call.start_time, call.end_time, call.seen,
                            call.include_expired, call.mark_seen)
        returned == SetToBag({p.event : p \in r.event_pairs})
        db == atomic([EventSeen |-> EventSeen], [EventSeen |-> r.EventSeen],
                     r.raised)
    IN  /\ EventSeen' = db.EventSeen
        /\ unsubscriptions' = Cached(call.medium, r.iterated)
        /\ delivered' = Delivered(call.medium, call.seen, call.mark_seen,
                                  r.raised, returned)
        /\ ret' = WithPrevious(
                      QueryRet("events_targets", call.medium, None,
                               call.start_time, call.end_time, call.seen,
                               call.include_expired, call.mark_seen, r,
                               returned, r.event_pairs),
                      call, ret.op = "get_medium_again")
        /\ UNCHANGED <<Event, EventActor, Subscription, Unsubscription,
                       EntityRelationship, now,
                   callers>>

\* ------------------------------------------------ concurrent events_targets
\* medium.events_targets(seen=False, mark_seen=True) made by a caller in a
\* process of its own, in the steps at which the database is read and
\* written. Every caller has its own connection and transaction
\* (@transaction.atomic) and its own Medium object.

\* The rows other callers have inserted in transactions that are still
\* open.
UncommittedByOthers(c) ==
    LET others == {d \in Callers \ {c} : callers[d].written # EmptyBag}
    IN  [r \in UNION {DOMAIN callers[d].written : d \in others} |->
            BagCardinality(BagFilter(SetToBag(others), LAMBDA d :
                BagIn(r, callers[d].written)))]

\* get_filtered_events, up to list(e.id for e in events): the caller enters
\* its transaction and evaluates the unseen filter on the committed rows.
SnapshotUnseen(c, self) ==
    /\ callers[c].pc = "idle"
    /\ callers' = [callers EXCEPT ![c] =
           [pc |-> "snapshot", medium |-> self,
            snapshot |-> {id \in EventIds :
                get_event_filters(self, {}, {}, "False", FALSE, EventSeen,
                                  EventById(id)) > 0},
            written |-> EmptyBag, result |-> {}, delivered_before |-> {}]]
    /\ UNCHANGED <<Event, EventActor, EventSeen, Subscription, Unsubscription,
                   EntityRelationship, unsubscriptions, now, ret, delivered>>

\* events.mark_seen(self): the bulk INSERT of one row per event of the
\* snapshot. It waits while a row of the batch conflicts with a row of a
\* transaction that is still open; it raises IntegrityError, which ends the
\* call and rolls its transaction back, when a row conflicts with a
\* committed one.
InsertSeen(c) ==
    LET self == callers[c].medium
        queryset == SetToBag(callers[c].snapshot)
        waits == mark_seen(queryset, self, UncommittedByOthers(c)).raised
        m == mark_seen(queryset, self, EventSeen)
    IN  /\ callers[c].pc = "snapshot"
        /\ ~waits
        /\ callers' = [callers EXCEPT ![c] =
               IF m.raised
               THEN [@ EXCEPT !.pc = "failed"]
               ELSE [@ EXCEPT !.pc = "marked",
                              !.written = SetToBag({SeenRow(id, self) :
                                               id \in callers[c].snapshot})]]
        /\ UNCHANGED <<Event, EventActor, EventSeen, Subscription,
                       Unsubscription, EntityRelationship, unsubscriptions,
                       now, ret, delivered>>

\* The rest of events_targets: the events of the snapshot are re-queried by
\* id and paired with their targets, the pairs with targets are returned,
\* and the transaction commits.
ReturnPairs(c) ==
    LET self == callers[c].medium
        fresh == [m \in Media |-> {}]
        result == {id \in callers[c].snapshot :
                      event_targets(fresh, self, None, EventById(id))
                          # EmptyBag}
    IN  /\ callers[c].pc = "marked"
        /\ EventSeen' = EventSeen (+) callers[c].written
        /\ delivered' = [delivered EXCEPT ![self] = @ \cup result]
        /\ callers' = [callers EXCEPT ![c] =
               [@ EXCEPT !.pc = "done", !.written = EmptyBag,
                         !.result = result,
                         !.delivered_before = delivered[self]]]
        /\ UNCHANGED <<Event, EventActor, Subscription, Unsubscription,
                       EntityRelationship, unsubscriptions, now, ret>>

\* The caller is through with the call, and may make another.
NextCall(c) ==
    /\ callers[c].pc \in {"done", "failed"}
    /\ callers' = [callers EXCEPT ![c] = NotCalling]
    /\ UNCHANGED <<Event, EventActor, EventSeen, Subscription, Unsubscription,
                   EntityRelationship, unsubscriptions, now, ret, delivered>>

\* The caller takes what the call returned (or the exception it raised) and
\* goes on: calls are made by one thread, one after the other.
Idle == ret.op = "idle"

Continue ==
    /\ ~Idle
    /\ ret' = [op |-> "idle"]
    /\ UNCHANGED <<Event, EventActor, EventSeen, Subscription, Unsubscription,
                   EntityRelationship, unsubscriptions, now, delivered,
                   callers>>

\* ------------------------------------------------------------ input domains
SeenArgs == {"True", "False", None}

\* uuid keyword: absent ('' is then both stored and looked up) or given.
UuidSeq == <<"", "u1", "u2">>

Uuids == {UuidSeq[i] : i \in DOMAIN UuidSeq}

\* The first uuid no event has.
FreshUuid ==
    LET free == {i \in DOMAIN UuidSeq : \A e \in Event : e.uuid # UuidSeq[i]}
    IN  UuidSeq[CHOOSE i \in free : \A j \in free : i <= j]

Sub(medium, source, entity, sub_entity_kind, only_following) ==
    [medium |-> medium, source |-> source, entity |-> entity,
     sub_entity_kind |-> sub_entity_kind, only_following |-> only_following]

\* The Subscription tables the runs start from: an individual and a
\* following group subscription on m1 and none on m2; a following
\* individual subscription on m1 and a group subscription on m2; the same
\* group subscription twice.
SubscriptionSetups ==
    {SetToBag({Sub("m1", "s1", "other", None, FALSE),
               Sub("m1", "s2", "parent", "user", TRUE)}),
     SetToBag({Sub("m1", "s1", "child", None, TRUE),
               Sub("m2", "s2", "parent", "user", FALSE)}),
     SetToBag({Sub("m1", "s1", "parent", "user", FALSE)}) (+)
     SetToBag({Sub("m1", "s1", "parent", "user", FALSE)})}

EntityGraph == {[sub_entity |-> "child", super_entity |-> "parent"]}

\* ----------------------------------------------------------- specification
\* The tables of a site that has subscriptions and an entity graph, and no
\* events yet.
InitTables(subscriptions, unsubscribed, graph) ==
    /\ Event = {}
    /\ EventActor = EmptyBag
    /\ EventSeen = EmptyBag
    /\ Subscription = subscriptions
    /\ Unsubscription = unsubscribed
    /\ EntityRelationship = graph
    /\ unsubscriptions = [m \in Media |-> {}]
    /\ now = 0
    /\ ret = [op |-> "idle"]
    /\ delivered = [m \in Media |-> {}]
    /\ callers = [c \in Callers |-> NotCalling]

InitWith(subscriptions) == InitTables(subscriptions, EmptyBag, EntityGraph)

\* Spec: the seen bookkeeping. Events of both sources are created, and the
\* three queries and mark_seen are called on both media, with every seen
\* and mark_seen argument.
Init == \E subscriptions \in SubscriptionSetups : InitWith(subscriptions)

NextCreateEvent ==
    /\ Idle
    /\ \E source \in Sources :
           CreateEvent(<<EntityObj("child")>>, FALSE, source, {}, FreshUuid)

NextMarkSeen ==
    /\ Idle
    /\ \E ids \in SUBSET EventIds, medium \in Media : MarkSeen(ids, medium)

NextEvents ==
    /\ Idle
    /\ \E self \in Media, seen \in SeenArgs, markSeen \in BOOLEAN :
           Events(self, {}, {}, seen, FALSE, markSeen)

NextEntityEvents ==
    /\ Idle
    /\ \E self \in Media, entity \in {"child", "other"}, seen \in SeenArgs,
          markSeen \in BOOLEAN :
           EntityEvents(self, entity, {}, {}, seen, FALSE, markSeen)

NextEventsTargets ==
    /\ Idle
    /\ \E self \in Media, entity_kind_arg \in {"user", None},
          seen \in SeenArgs, markSeen \in BOOLEAN :
           EventsTargets(self, entity_kind_arg, {}, {}, seen, FALSE, markSeen)

Next ==
    \/ NextCreateEvent
    \/ NextMarkSeen
    \/ NextEvents
    \/ NextEntityEvents
    \/ NextEventsTargets
    \/ Continue

Spec == Init /\ [][Next]_vars

\* SpecEvents: events() with the time and expiry filters. Events that expire
\* or not are created while time passes, and events() is called on both
\* media with every seen, mark_seen and include_expired, without a time
\* window, from the last tick on, and up to the first tick.
TimeWindows == {<<{}, {}>>, <<{MaxTime}, {}>>, <<{}, {0}>>}

InitEvents ==
    \E subscriptions \in {subs \in SubscriptionSetups :
                             \A sub \in DOMAIN subs : subs[sub] = 1} :
        InitWith(subscriptions)

NextCreateExpiringEvent ==
    /\ Idle
    /\ \E source \in Sources, time_expires \in {{}, {now}} :
           CreateEvent(<<EntityObj("child")>>, FALSE, source, time_expires,
                       FreshUuid)

NextTick == Idle /\ Tick

NextEventsFiltered ==
    /\ Idle
    /\ \E self \in Media, window \in TimeWindows, seen \in SeenArgs,
          include_expired \in BOOLEAN, markSeen \in BOOLEAN :
           Events(self, window[1], window[2], seen, include_expired, markSeen)

NextEventsOnly ==
    \/ NextCreateExpiringEvent
    \/ NextTick
    \/ NextEventsFiltered
    \/ Continue

SpecEvents == InitEvents /\ [][NextEventsOnly]_vars

\* SpecCreate: event creation alone, with every argument: actors given as
\* objects, as primary keys, repeated, or naming no Entity row; expiring or
\* not; uuids absent, fresh and repeated; time passing between the calls.
ActorArgs ==
    {<<>>, <<EntityObj("child")>>, <<Pk("parent"), EntityObj("parent")>>,
     <<Pk("child"), Pk(DanglingEntity)>>}

InitCreate == InitWith(EmptyBag)

NextCreateAnyEvent ==
    /\ Idle
    /\ \E actors \in ActorArgs, ignore_duplicates \in BOOLEAN,
          source \in Sources, time_expires \in {{}, {now}}, uuid \in Uuids :
           CreateEvent(actors, ignore_duplicates, source, time_expires, uuid)

NextCreate ==
    \/ NextCreateAnyEvent
    \/ NextTick
    \/ Continue

SpecCreate == InitCreate /\ [][NextCreate]_vars

\* SpecUnsub: unsubscriptions are created between entity_events and
\* events_targets calls made on the same Medium objects, which the caller
\* may also fetch anew.
NextCreateUnsubscription ==
    /\ Idle
    /\ \E entity \in Entities, medium \in Media, source \in Sources :
           CreateUnsubscription(entity, medium, source)

NextGetMedium == Idle /\ \E medium \in Media : GetMedium(medium)

NextEntityEventsAll ==
    /\ Idle
    /\ \E self \in Media, entity \in Entities :
           EntityEvents(self, entity, {}, {}, None, FALSE, FALSE)

NextEventsTargetsAll ==
    /\ Idle
    /\ \E self \in Media, entity_kind_arg \in EntityKinds \cup {None} :
           EventsTargets(self, entity_kind_arg, {}, {}, None, FALSE, FALSE)

NextUnsub ==
    \/ NextCreateEvent
    \/ NextCreateUnsubscription
    \/ NextGetMedium
    \/ NextEntityEventsAll
    \/ NextEventsTargetsAll
    \/ Continue

SpecUnsub == Init /\ [][NextUnsub]_vars

\* SpecGraph: followed_by and followers_of over every entity graph on the
\* entities: a call on any set of entities, alone or right after another
\* follow call, on the same set, on another one or on that call's result.
RelationshipRows ==
    {[sub_entity |-> sub, super_entity |-> super] :
        sub \in Entities, super \in Entities} \
    {[sub_entity |-> e, super_entity |-> e] : e \in Entities}

InitGraph ==
    \E graph \in SUBSET RelationshipRows :
        InitTables(EmptyBag, EmptyBag, graph)

FollowArgs == Idle \/ (IsFollowCall /\ ret.previous = {})

NextFollowedBy ==
    /\ FollowArgs
    /\ \E entities \in SUBSET Entities : FollowedBy(entities)

NextFollowersOf ==
    /\ FollowArgs
    /\ \E entities \in SUBSET Entities : FollowersOf(entities)

NextGraph ==
    \/ NextFollowedBy
    \/ NextFollowersOf
    \/ Continue

SpecGraph == InitGraph /\ [][NextGraph]_vars

\* SpecRouting: which events and targets the subscriptions select. Two
\* users, child and other, belong to the group parent; events are created
\* without actors, by child and by parent; child unsubscribes on m1; the
\* three queries are called on both media, for every entity and kind, on
\* Medium objects that the caller may fetch anew.
FamilyGraph ==
    {[sub_entity |-> "child", super_entity |-> "parent"],
     [sub_entity |-> "other", super_entity |-> "parent"]}

InitRouting ==
    \E subscriptions \in SubscriptionSetups :
        InitTables(subscriptions, EmptyBag, FamilyGraph)

NextCreateRoutedEvent ==
    /\ Idle
    /\ \E actors \in {<<>>, <<EntityObj("child")>>, <<EntityObj("parent")>>},
          source \in Sources :
           CreateEvent(actors, FALSE, source, {}, FreshUuid)

NextChildUnsubscribes ==
    /\ Idle
    /\ \E source \in Sources : CreateUnsubscription("child", "m1", source)

NextEventsAll ==
    /\ Idle
    /\ \E self \in Media : Events(self, {}, {}, None, FALSE, FALSE)

NextRouting ==
    \/ NextCreateRoutedEvent
    \/ NextChildUnsubscribes
    \/ NextGetMedium
    \/ NextEventsAll
    \/ NextEntityEventsAll
    \/ NextEventsTargetsAll
    \/ Continue

SpecRouting == InitRouting /\ [][NextRouting]_vars

\* SpecFilter: the event-level filter. Both media subscribe to the one
\* source; events that expire or not are created while time passes; events()
\* is called on either medium with every seen and include_expired, marking
\* or not, without a time window, from the last tick on, up to the first
\* tick, and with start_time after end_time.
FilterWindows == TimeWindows \cup {<<{MaxTime}, {0}>>}

InitFilter ==
    InitTables(SetToBag({Sub("m1", "s1", "other", None, FALSE),
                         Sub("m2", "s1", "parent", "user", FALSE)}),
               EmptyBag, EntityGraph)

NextCreateFilteredEvent ==
    /\ Idle
    /\ \E time_expires \in {{}, {now}} :
           CreateEvent(<<>>, FALSE, "s1", time_expires, FreshUuid)

NextEventsWindow ==
    /\ Idle
    /\ \E self \in Media, window \in FilterWindows, seen \in SeenArgs,
          include_expired \in BOOLEAN, markSeen \in BOOLEAN :
           /\ markSeen => seen = "False"
           /\ Events(self, window[1], window[2], seen, include_expired,
                     markSeen)

NextFilter ==
    \/ NextCreateFilteredEvent
    \/ NextTick
    \/ NextEventsWindow
    \/ Continue

SpecFilter == InitFilter /\ [][NextFilter]_vars

\* SpecSubset: subset_subscriptions over every entity graph on the
\* entities, on media with individual subscriptions, group subscriptions
\* for either kind and a repeated row, for every entity and for None.
SubsetSetup ==
    SetToBag({Sub("m1", "s1", "child", None, TRUE),
              Sub("m1", "s1", "parent", "user", TRUE),
              Sub("m1", "s2", "parent", "group", FALSE),
              Sub("m1", "s2", "other", "user", FALSE),
              Sub("m2", "s1", "other", None, FALSE),
              Sub("m2", "s2", "child", "group", TRUE)}) (+)
    SetToBag({Sub("m2", "s1", "other", None, FALSE)})

InitSubset ==
    \E graph \in SUBSET RelationshipRows :
        InitTables(SubsetSetup, EmptyBag, graph)

NextSubsetSubscriptions ==
    /\ Idle
    /\ \E self \in Media, entity \in Entities \cup {None} :
           SubsetSubscriptions(self, entity)

NextSubset ==
    \/ NextSubsetSubscriptions
    \/ Continue

SpecSubset == InitSubset /\ [][NextSubset]_vars

\* SpecAgree: entity_events and events_targets on the same tables. As
\* SpecRouting, and events_targets is also called right after an
\* entity_events call whose result the caller holds, on the same Medium
\* object or on one fetched in between.
NextGetMediumAgain == GetMediumAgain

NextEventsTargetsAfter ==
    \E call \in HeldEntityEvents : EventsTargetsAfter(call)

NextAgree ==
    \/ NextCreateRoutedEvent
    \/ NextChildUnsubscribes
    \/ NextGetMedium
    \/ NextEntityEventsAll
    \/ NextGetMediumAgain
    \/ NextEventsTargetsAfter
    \/ Continue

SpecAgree == InitRouting /\ [][NextAgree]_vars

\* SpecConcurrent: two callers make events_targets(seen=False,
\* mark_seen=True) calls on the media, one after the other and at the same
\* time, in every interleaving of their steps, while events are created.
NextSnapshotUnseen ==
    \E c \in Callers, self \in Media : SnapshotUnseen(c, self)

NextInsertSeen == \E c \in Callers : InsertSeen(c)

NextReturnPairs == \E c \in Callers : ReturnPairs(c)

NextNextCall == \E c \in Callers : NextCall(c)

NextConcurrent ==
    \/ NextCreateEvent
    \/ Continue
    \/ NextSnapshotUnseen
    \/ NextInsertSeen
    \/ NextReturnPairs
    \/ NextNextCall

SpecConcurrent == Init /\ [][NextConcurrent]_vars

\* ------------------------------------------------------------------ claims
\* Vocabulary of the claims, read off the call record and the tables.
IsQuery == ret.op \in {"events", "entity_events", "events_targets"}

SeenBefore(id, medium) == BagIn(SeenRow(id, medium), ret.before.EventSeen)

SeenNow(id, medium) == BagIn(SeenRow(id, medium), EventSeen)

\* The time and expiry conditions of the call on record.
PassesTimeFilters(id) ==
    LET e == EventById(id)
    IN  /\ \A t \in ret.start_time : e.time >= t
        /\ \A t \in ret.end_time : e.time <= t
        /\ ret.include_expired \/ \A t \in e.time_expires : t >= ret.before.now

\* Some subscription of the medium selects the event.
SubscribedEvent(medium, id) ==
    \E sub \in DOMAIN Subscription :
        /\ sub.medium = medium
        /\ sub.source = EventById(id).source
        /\ sub.only_following =>
               \E r \in DOMAIN ActorsOf(id) :
                   r.entity \in followed_by(subscribed_entities(sub))

IsUnsubscribed(entity, medium, source) ==
    BagIn([entity |-> entity, medium |-> medium, source |-> source],
          Unsubscription)

\* C1: events(medium, seen=False, mark_seen=True) returns exactly the
\* subscribed events that had no EventSeen row for the medium before the
\* call and pass the time and expiry filters: its own marking removes none.
C1_UnseenSetFixedBeforeMarking ==
    (/\ ret.op = "events"
     /\ ret.seen = "False"
     /\ ret.mark_seen
     /\ ret.outcome = "ok")
    => DOMAIN ret.events =
           {id \in EventIds : /\ ~SeenBefore(id, ret.medium)
                              /\ PassesTimeFilters(id)
                              /\ SubscribedEvent(ret.medium, id)}

\* An events(seen=False, mark_seen=True) call returned events that it
\* marked itself, and left out a subscribed unseen event that its time or
\* expiry filter excludes.
C1_Witness ==
    /\ ret.op = "events"
    /\ ret.seen = "False"
    /\ ret.mark_seen
    /\ ret.outcome = "ok"
    /\ ret.events # EmptyBag
    /\ \A id \in DOMAIN ret.events :
           ~SeenBefore(id, ret.medium) /\ SeenNow(id, ret.medium)
    /\ \E id \in EventIds :
           /\ ~SeenBefore(id, ret.medium)
           /\ SubscribedEvent(ret.medium, id)
           /\ ~PassesTimeFilters(id)

\* C2: a query with seen=False on a medium returns no event that an
\* earlier query with seen=False, mark_seen=True on that medium returned.
C2_DeliveredNotReturnedAgain ==
    (IsQuery /\ ret.seen = "False" /\ ret.outcome = "ok")
    => DOMAIN ret.events \cap ret.before.delivered[ret.medium] = {}

\* A seen=False query, made after an earlier marking query returned an
\* event, returns an event created since.
C2_Witness ==
    /\ IsQuery
    /\ ret.seen = "False"
    /\ ret.outcome = "ok"
    /\ ret.before.delivered[ret.medium] # {}
    /\ ret.events # EmptyBag

\* C3: mark_seen on events of which some have an EventSeen row for the
\* medium completes without error and leaves exactly one row per pair.
C3_MarkSeenIdempotent ==
    ret.op = "mark_seen"
    => /\ ret.outcome = "ok"
       /\ \A id \in ret.queryset :
              CopiesIn(SeenRow(id, ret.medium), EventSeen) = 1

\* C4: events() on a medium without subscriptions returns an empty result
\* and raises nothing.
C4_NoSubscriptionsEmptyResult ==
    (ret.op = "events" /\ subscriptions_of(ret.medium) = EmptyBag)
    => ret.outcome = "ok" /\ ret.events = EmptyBag

\* C5: after a query with mark_seen=True returned, whatever the seen
\* argument, every returned event has an EventSeen row for the medium.
C5_ReturnedEventsMarked ==
    (IsQuery /\ ret.mark_seen /\ ret.outcome = "ok")
    => \A id \in DOMAIN ret.events : SeenNow(id, ret.medium)

\* C6: a query with mark_seen=True gives an EventSeen row to no event that
\* is not in its result.
C6_OnlyReturnedEventsMarked ==
    (IsQuery /\ ret.mark_seen)
    => \A id \in EventIds :
           (SeenNow(id, ret.medium) /\ ~SeenBefore(id, ret.medium))
           => id \in DOMAIN ret.events

\* C7: events_targets never lists, for an event of source S, an entity for
\* which Unsubscription(entity, medium, S) exists when the call is made.
C7_UnsubscribedNeverTargeted ==
    ret.op = "events_targets"
    => \A p \in ret.event_pairs : \A t \in DOMAIN p.targets :
           ~IsUnsubscribed(t, ret.medium, EventById(p.event).source)

\* What entity_events returns from the same tables without any
\* Unsubscription row.
EntityEventsIgnoringUnsubscriptions ==
    entity_events([m \in Media |-> {[source \in Sources |-> {}]}],
                  ret.medium, ret.arg, ret.start_time, ret.end_time, ret.seen,
                  ret.include_expired, FALSE).events

\* C8: entity_events(medium, E) returns no event of a source S with
\* Unsubscription(E, medium, S), and drops no event for any other
\* Unsubscription row.
C8_EntityEventsUnsubscription ==
    (ret.op = "entity_events" /\ ret.outcome = "ok" /\ ~ret.mark_seen)
    => DOMAIN ret.events =
           {id \in DOMAIN EntityEventsIgnoringUnsubscriptions :
               ~IsUnsubscribed(ret.arg, ret.medium, EventById(id).source)}

\* Vocabulary of the create_event claims.
UuidExistedBefore == \E e \in ret.before.Event : e.uuid = ret.uuid

ActorsAreEntities ==
    \A i \in 1..Len(ret.actors) : ActorId(ret.actors[i]) \in Entities

TablesAsBefore ==
    Event = ret.before.Event /\ EventActor = ret.before.EventActor

\* How often the entity is among the actors given to the call.
TimesGiven(entity) ==
    Cardinality({i \in 1..Len(ret.actors) : ActorId(ret.actors[i]) = entity})

\* C9: create_event with ignore_duplicates=True returns an Event when no
\* event has the uuid and None when one has; the second call adds no Event
\* and no EventActor row, and one Event with the uuid is stored.
C9_IgnoreDuplicates ==
    (ret.op = "create_event" /\ ret.ignore_duplicates /\ ActorsAreEntities)
    => /\ IF UuidExistedBefore
          THEN ret.outcome = "None" /\ TablesAsBefore
          ELSE ret.outcome = "Event"
       /\ Cardinality({e \in Event : e.uuid = ret.uuid}) = 1

\* The second create_event(ignore_duplicates=True) call with a uuid.
C9_Witness ==
    /\ ret.op = "create_event"
    /\ ret.ignore_duplicates
    /\ ActorsAreEntities
    /\ UuidExistedBefore
    /\ ret.outcome = "None"

\* C10: after create_event returned or raised, either the Event row and
\* one EventActor row per given actor were added, or the tables are as
\* they were; with ignore_duplicates=False and a uuid that exists it raises
\* and the tables are as they were.
C10_CreateEventAtomic ==
    ret.op = "create_event"
    => /\ \/ /\ ret.outcome = "Event"
             /\ \E e \in Event :
                    /\ e.id = ret.event
                    /\ e.uuid = ret.uuid
                    /\ e \notin ret.before.Event
                    /\ Event = ret.before.Event \cup {e}
             /\ \A entity \in Entities :
                    CopiesIn([event |-> ret.event, entity |-> entity],
                             EventActor) = TimesGiven(entity)
             /\ BagCardinality(EventActor) =
                    BagCardinality(ret.before.EventActor) + Len(ret.actors)
          \/ /\ ret.outcome \in {"None", "IntegrityError"}
             /\ TablesAsBefore
       /\ (~ret.ignore_duplicates /\ UuidExistedBefore)
              => ret.outcome = "IntegrityError"

\* create_event(ignore_duplicates=False) was called with a uuid that an
\* event has, and raised.
C10_Witness ==
    /\ ret.op = "create_event"
    /\ ~ret.ignore_duplicates
    /\ UuidExistedBefore
    /\ ret.outcome = "IntegrityError"
    /\ ret.before.Event # {}
    /\ TablesAsBefore

\* create_event raised after the Event row was written: an actor names no
\* Entity row.
C10_WitnessLateFailure ==
    /\ ret.op = "create_event"
    /\ ~UuidExistedBefore
    /\ ~ActorsAreEntities
    /\ ret.outcome = "IntegrityError"

\* Vocabulary of the follow claims: the direct super and sub entities of a
\* set of entities, read off the EntityRelationship rows.
DirectSupers(X) ==
    {e \in Entities : \E x \in X :
        [sub_entity |-> x, super_entity |-> e] \in EntityRelationship}

DirectSubs(X) ==
    {e \in Entities : \E x \in X :
        [sub_entity |-> e, super_entity |-> x] \in EntityRelationship}

\* C12: for all entities A and B and every entity graph, A is in
\* followers_of({B}) if and only if B is in followed_by({A}).
C12_FollowInverses ==
    (ret.op = "followed_by" /\ ret.previous # {})
    => \A call \in ret.previous : \A A \in ret.entities, B \in call.entities :
           (/\ call.op = "followers_of"
            /\ ret.entities = {A}
            /\ call.entities = {B})
           => (A \in call.result <=> B \in ret.result)

\* followers_of({B}) held A, a sub entity of B, and followed_by({A}) then
\* held B.
C12_Witness ==
    /\ ret.op = "followed_by"
    /\ \E call \in ret.previous : \E A \in ret.entities, B \in call.entities :
           /\ call.op = "followers_of"
           /\ ret.entities = {A}
           /\ call.entities = {B}
           /\ A # B
           /\ A \in call.result
           /\ B \in ret.result

\* C13: followed_by(X) is X and the direct super entities of its members,
\* followers_of(X) is X and the direct sub entities of its members, and X is
\* within followed_by(followers_of(X)) and followers_of(followed_by(X)).
C13_FollowOneHop ==
    /\ ret.op = "followed_by"
           => ret.result = ret.entities \cup DirectSupers(ret.entities)
    /\ ret.op = "followers_of"
           => ret.result = ret.entities \cup DirectSubs(ret.entities)
    /\ IsFollowCall
           => \A call \in ret.previous :
                  (call.op # ret.op /\ ret.entities = call.result)
                  => call.entities \subseteq ret.result

\* followed_by was called on an entity that has a super entity with a super
\* entity of its own, and returned the first and not the second.
C13_Witness ==
    /\ ret.op = "followed_by"
    /\ \E x \in ret.entities :
           \E parent \in DirectSupers({x}) :
               \E grandparent \in DirectSupers({parent}) :
                   /\ ret.entities = {x}
                   /\ grandparent \notin DirectSupers({x}) \cup {x}
                   /\ parent \in ret.result
                   /\ grandparent \notin ret.result

\* The event-level conditions of the call on record: its time and expiry
\* conditions and its seen condition, on the EventSeen rows of its medium
\* as they were before the call.
AdmittedByFilters(id) ==
    /\ PassesTimeFilters(id)
    /\ ret.seen = "True" => SeenBefore(id, ret.medium)
    /\ ret.seen = "False" => ~SeenBefore(id, ret.medium)

\* C14: events(medium) returns an event that passes the filters if and
\* only if some Subscription of the medium has the event's source and is
\* not only_following, or is and the event has an actor in
\* followed_by(subscribed_entities(sub)).
C14_EventsOfSubscriptions ==
    ret.op = "events"
    => DOMAIN ret.events =
           {id \in EventIds :
               AdmittedByFilters(id) /\ SubscribedEvent(ret.medium, id)}

\* events() returned an event without actors, and left out an event whose
\* source only a subscription of another medium has.
C14_Witness ==
    /\ ret.op = "events"
    /\ \E id \in DOMAIN ret.events : ActorsOf(id) = EmptyBag
    /\ \E id \in EventIds \ DOMAIN ret.events :
           \E sub \in DOMAIN Subscription :
               sub.medium # ret.medium /\ sub.source = EventById(id).source

\* A subscription the entity is part of: an individual subscription of the
\* entity, or a group subscription of one of its direct super entities for
\* the entity's kind.
RelevantTo(sub, entity) ==
    \/ sub.entity = entity /\ sub.sub_entity_kind = None
    \/ /\ sub.entity \in DirectSupers({entity})
       /\ sub.sub_entity_kind = entity_kind[entity]

\* The unsubscriptions the Medium object of the call on record works with:
\* those it read before, or reads now.
UnsubscriptionsHeld == cached_property(ret.before.unsubscriptions, ret.medium)

\* C11: entity_events(medium, E) returns exactly the events that pass the
\* filters and that some subscription of the medium relevant to E selects,
\* an only_following one through an actor in
\* followed_by(subscribed_entities(sub)), less the events of the sources E
\* has unsubscribed from.
C11_EntityEventsAsEvents ==
    ret.op = "entity_events"
    => DOMAIN ret.events =
           {id \in EventIds :
               /\ AdmittedByFilters(id)
               /\ \E sub \in DOMAIN Subscription :
                      /\ sub.medium = ret.medium
                      /\ RelevantTo(sub, ret.arg)
                      /\ sub.source = EventById(id).source
                      /\ sub.only_following =>
                             \E r \in DOMAIN ActorsOf(id) :
                                 r.entity \in
                                     followed_by(subscribed_entities(sub))
               /\ ~IsUnsubscribed(ret.arg, ret.medium, EventById(id).source)}

\* C11, amended: entity_events(medium, E) returns exactly the events that
\* pass the filters and that some subscription of the medium relevant to E
\* selects, an only_following one through an actor that is E or a direct
\* super entity of E, less the events of the sources that the
\* unsubscriptions held by the Medium object list E for.
C11_EntityEventsOfEntity ==
    ret.op = "entity_events"
    => DOMAIN ret.events =
           {id \in EventIds :
               /\ AdmittedByFilters(id)
               /\ \E sub \in DOMAIN Subscription :
                      /\ sub.medium = ret.medium
                      /\ RelevantTo(sub, ret.arg)
                      /\ sub.source = EventById(id).source
                      /\ sub.only_following =>
                             \E r \in DOMAIN ActorsOf(id) :
                                 r.entity \in
                                     {ret.arg} \cup DirectSupers({ret.arg})
               /\ ret.arg \notin UnsubscriptionsHeld[EventById(id).source]}

\* entity_events(medium, E) returned an event by the group of E through a
\* following group subscription, and left out an event by another member
\* of the group that the subscription has the source of.
C11_Witness ==
    /\ ret.op = "entity_events"
    /\ \E sub \in DOMAIN Subscription :
           /\ sub.medium = ret.medium
           /\ RelevantTo(sub, ret.arg)
           /\ sub.only_following
           /\ sub.sub_entity_kind # None
           /\ \E id \in DOMAIN ret.events :
                  /\ EventById(id).source = sub.source
                  /\ DOMAIN ActorsOf(id) = {[event |-> id, entity |-> sub.entity]}
           /\ \E id \in EventIds \ DOMAIN ret.events :
                  /\ EventById(id).source = sub.source
                  /\ \E r \in DOMAIN ActorsOf(id) :
                         /\ r.entity # ret.arg
                         /\ r.entity \in subscribed_entities(sub)

\* Vocabulary of the target claims, for the events_targets call on record:
\* the entities that the subscriptions of the medium with the event's
\* source subscribe, a following subscription only the followers of the
\* event's actors; and the kind restriction of the call.
Candidates(id) ==
    LET actors == {r.entity : r \in DOMAIN ActorsOf(id)}
    IN  {t \in Entities :
            \E sub \in DOMAIN Subscription :
                /\ sub.medium = ret.medium
                /\ sub.source = EventById(id).source
                /\ t \in subscribed_entities(sub)
                /\ sub.only_following => t \in followers_of(actors)}

OfKind(t) == ret.arg = None \/ entity_kind[t] = ret.arg

\* The targets left of an event when the entities `unsubscribed` from its
\* source are taken out.
TargetsLeft(id, unsubscribed) ==
    {t \in Candidates(id) : t \notin unsubscribed /\ OfKind(t)}

\* The entities with an Unsubscription row for the medium of the call and
\* the source of the event.
UnsubscribedFrom(id) ==
    {t \in Entities : IsUnsubscribed(t, ret.medium, EventById(id).source)}

\* C15: the entities of an event's target list in events_targets are
\* exactly the subscribed entities of the medium's subscriptions with the
\* event's source, for a following subscription those that are followers
\* of the event's actors, minus the entities unsubscribed from (source,
\* medium), restricted to entity_kind when given.
C15_TargetsOfSubscriptions ==
    ret.op = "events_targets"
    => \A p \in ret.event_pairs :
           DOMAIN p.targets = TargetsLeft(p.event, UnsubscribedFrom(p.event))

\* C15 with the unsubscriptions as the Medium object of the call holds
\* them in place of the Unsubscription rows.
C15_TargetsWithUnsubscriptionsHeld ==
    ret.op = "events_targets"
    => \A p \in ret.event_pairs :
           DOMAIN p.targets =
               TargetsLeft(p.event, UnsubscriptionsHeld[EventById(p.event).source])

\* A following group subscription and an event by a member of the group:
\* the member is a target, the group is not.
C15_WitnessChildNotParent ==
    /\ ret.op = "events_targets"
    /\ \E p \in ret.event_pairs : \E sub \in DOMAIN Subscription :
           /\ sub.medium = ret.medium
           /\ sub.source = EventById(p.event).source
           /\ sub.only_following
           /\ sub.sub_entity_kind # None
           /\ \E r \in DOMAIN ActorsOf(p.event) :
                  /\ r.entity \in subscribed_entities(sub)
                  /\ r.entity \in DOMAIN p.targets
                  /\ sub.entity \notin DOMAIN p.targets

\* C16: events_targets returns no pair with an empty target list, and of
\* the events that pass the filters exactly those that have a target left
\* after follow gating, unsubscription and the entity_kind filter.
C16_NoEmptyTargets ==
    ret.op = "events_targets"
    => /\ \A p \in ret.event_pairs : p.targets # EmptyBag
       /\ {p.event : p \in ret.event_pairs} =
              {id \in EventIds :
                  /\ AdmittedByFilters(id)
                  /\ TargetsLeft(id, UnsubscriptionsHeld[EventById(id).source])
                         # {}}

\* events_targets returned a pair, and left out an event that passes the
\* filters and whose source a subscription of the medium subscribes
\* entities to: none of them was left as a target.
C16_Witness ==
    /\ ret.op = "events_targets"
    /\ ret.event_pairs # {}
    /\ \E id \in EventIds \ {p.event : p \in ret.event_pairs} :
           /\ AdmittedByFilters(id)
           /\ \E sub \in DOMAIN Subscription :
                  /\ sub.medium = ret.medium
                  /\ sub.source = EventById(id).source
                  /\ subscribed_entities(sub) # {}

\* C17: the event-level filter admits an event if and only if its time is
\* not before start_time and not after end_time when these are given, it
\* has not expired unless include_expired, and it has an EventSeen row of
\* this medium for seen=True, none for seen=False; rows of other media
\* change nothing, and start_time after end_time gives an empty result, no
\* error.
C17_EventLevelFilter ==
    ret.op = "events"
    => /\ \A id \in EventIds :
              SubscribedEvent(ret.medium, id)
              => (id \in DOMAIN ret.events <=> AdmittedByFilters(id))
       /\ \A start \in ret.start_time, end \in ret.end_time :
              start > end
              => /\ ret.events = EmptyBag
                 /\ ret.outcome = "ok" \/ subscriptions_of(ret.medium) = EmptyBag

\* events(seen=False) returned an event that another medium has seen, and
\* left out an unseen event that has expired.
C17_Witness ==
    /\ ret.op = "events"
    /\ ret.seen = "False"
    /\ ~ret.include_expired
    /\ \E id \in DOMAIN ret.events : \E medium \in Media \ {ret.medium} :
           SeenBefore(id, medium)
    /\ \E id \in EventIds \ DOMAIN ret.events :
           /\ ~SeenBefore(id, ret.medium)
           /\ \E t \in EventById(id).time_expires : t < ret.before.now

\* events() was called with start_time after end_time when events passed
\* every other condition of the call, and returned none.
C17_WitnessEmptyWindow ==
    /\ ret.op = "events"
    /\ ret.outcome = "ok"
    /\ \E start \in ret.start_time, end \in ret.end_time : start > end
    /\ ret.seen = "True"
    /\ \E id \in EventIds : SeenBefore(id, ret.medium)
    /\ ret.events = EmptyBag

\* C18: a query called with mark_seen=False changes no table, and no
\* operation removes an EventSeen row.
C18_QueriesReadOnly ==
    [][/\ (IsQuery' /\ ~ret'.mark_seen)
           => UNCHANGED <<Event, EventActor, EventSeen, Subscription,
                          Unsubscription, EntityRelationship>>
       /\ \A r \in DOMAIN EventSeen : CopiesIn(r, EventSeen') >= EventSeen[r]
      ]_vars

\* A query with seen=False and mark_seen=False returned unseen events when
\* the medium had seen other events, and marked none.
C18_Witness ==
    /\ IsQuery
    /\ ~ret.mark_seen
    /\ ret.seen = "False"
    /\ ret.events # EmptyBag
    /\ \E id \in EventIds : SeenNow(id, ret.medium)
    /\ \A id \in DOMAIN ret.events : ~SeenNow(id, ret.medium)

\* C19: entity_events(medium, E) returns an empty result and raises
\* nothing when no subscription of the medium is relevant to E.
C19_NoRelevantSubscriptionEmptyResult ==
    (/\ ret.op = "entity_events"
     /\ \A sub \in DOMAIN Subscription :
            sub.medium = ret.medium => ~RelevantTo(sub, ret.arg))
    => ret.outcome = "ok" /\ ret.events = EmptyBag

\* Vocabulary of the transaction claim: the events a marking call finds
\* unseen, and so writes EventSeen rows for before anything else.
FoundUnseen ==
    {id \in EventIds : AdmittedByFilters(id)}

\* C20: a query called with seen=False and mark_seen=True that raises after
\* it wrote EventSeen rows leaves the tables as they were before the call.
C20_FailedQueryRolledBack ==
    (IsQuery /\ ret.seen = "False" /\ ret.mark_seen /\ ret.outcome # "ok")
    => /\ EventSeen = ret.before.EventSeen
       /\ Event = ret.before.Event
       /\ EventActor = ret.before.EventActor
       /\ Unsubscription = ret.before.Unsubscription

\* A marking query raised after it had found unseen events and written
\* their EventSeen rows.
C20_Witness ==
    /\ IsQuery
    /\ ret.seen = "False"
    /\ ret.mark_seen
    /\ ret.outcome # "ok"
    /\ FoundUnseen # {}
    /\ \A id \in FoundUnseen : ~SeenNow(id, ret.medium)

\* C22: in the output of events_targets each entity is at most once in an
\* event's target list, also when several Subscription rows (which may
\* repeat each other) select it for the event.
C22_TargetsOncePerEntity ==
    ret.op = "events_targets"
    => \A p \in ret.event_pairs : \A t \in DOMAIN p.targets :
           CopiesIn(t, p.targets) = 1

\* C23: subset_subscriptions(subscriptions, E) returns exactly the
\* individual subscriptions of E and the group subscriptions of the direct
\* super entities of E for E's kind, every row as often as it was given;
\* with None it returns the subscriptions unchanged.
C23_SubsetSingleHop ==
    ret.op = "subset_subscriptions"
    => IF ret.arg = None
       THEN ret.result = ret.subscriptions
       ELSE /\ DOMAIN ret.result \subseteq DOMAIN ret.subscriptions
            /\ \A sub \in DOMAIN ret.subscriptions :
                   CopiesIn(sub, ret.result) =
                       IF RelevantTo(sub, ret.arg)
                       THEN ret.subscriptions[sub] ELSE 0

\* subset_subscriptions returned subscriptions for an entity and left out
\* the group subscription, for the entity's kind, of a super entity of one
\* of its super entities.
C23_Witness ==
    /\ ret.op = "subset_subscriptions"
    /\ ret.arg # None
    /\ ret.result # EmptyBag
    /\ \E sub \in DOMAIN ret.subscriptions :
           /\ sub.sub_entity_kind = entity_kind[ret.arg]
           /\ sub.entity \in DirectSupers(DirectSupers({ret.arg}))
           /\ sub.entity \notin DirectSupers({ret.arg})
           /\ sub \notin DOMAIN ret.result

\* Vocabulary of the agreement claim: the events_targets call on record
\* was made right after an entity_events call, whose entity has a relevant
\* subscription on the medium.
AfterEntityEvents ==
    /\ ret.op = "events_targets"
    /\ "previous" \in DOMAIN ret
    /\ \E sub \in DOMAIN Subscription :
           sub.medium = ret.medium /\ RelevantTo(sub, ret.previous.arg)

\* The events that have the entity among their targets.
TargetedAt(entity) ==
    {p.event : p \in {q \in ret.event_pairs : entity \in DOMAIN q.targets}}

\* C24: with the same filters, without marking and without entity_kind, an
\* event is returned by entity_events(M, E) if and only if E is in its
\* target list in events_targets(M), for E with a relevant subscription.
C24_EntityEventsAgreeWithTargets ==
    AfterEntityEvents
    => DOMAIN ret.previous.events = TargetedAt(ret.previous.arg)

\* C24 for two calls made on the same Medium object.
C24_AgreeOnOneMediumObject ==
    (AfterEntityEvents /\ ~ret.refetched)
    => DOMAIN ret.previous.events = TargetedAt(ret.previous.arg)

\* entity_events and events_targets, called on one Medium object, agreed
\* on an event returned for the entity and on one not returned for it.
C24_WitnessOneMediumObject ==
    /\ AfterEntityEvents
    /\ ~ret.refetched
    /\ ret.previous.events # EmptyBag
    /\ EventIds \ DOMAIN ret.previous.events # {}
    /\ ret.event_pairs # {}

\* C21: when two callers run a marking query on a medium at the same time
\* and both find the same events unseen, the INSERT of the later one
\* tolerates the rows of the other: no call fails on an EventSeen row that
\* exists.
C21_ConcurrentMarkingTolerated ==
    \A c \in Callers : callers[c].pc # "failed"

\* C25: over the sequential and concurrent events_targets(seen=False,
\* mark_seen=True) calls on a medium, no call that completes returns an
\* event that an earlier completed call on the medium has returned.
C25_AtMostOnceDispatch ==
    \A c \in Callers :
        callers[c].pc = "done"
        => callers[c].result \cap callers[c].delivered_before = {}

\* Two callers found the same event unseen on a medium: one returned it
\* and committed, the other failed.
C25_Witness ==
    \E c \in Callers, d \in Callers :
        /\ callers[c].pc = "done"
        /\ callers[d].pc = "failed"
        /\ callers[c].medium = callers[d].medium
        /\ callers[c].result \cap callers[d].snapshot # {}

\* A caller returned events on a medium on which an earlier call had
\* returned others.
C25_WitnessSequential ==
    \E c \in Callers :
        /\ callers[c].pc = "done"
        /\ callers[c].result # {}
        /\ callers[c].delivered_before # {}

====
